---- MODULE Spec2Model ----
(***************************************************************************)
(* Model of qlib/contrib/online/utils.py: the persistence helpers of the   *)
(* online user manager (pickled instances, the user folder and its         *)
(* registry, per-date score files and order-list files) and prepare(),    *)
(* the computation of a user's pending trading dates.                      *)
(*                                                                         *)
(* Text (path components, date strings, CSV cells) is a sequence of        *)
(* one-character strings, so that formatting, splitting and parsing are    *)
(* computed and not assumed.  A path is a sequence of components.  A file   *)
(* holds a sequence of lines, a line is a sequence of cells, a cell is     *)
(* text.                                                                   *)
(***************************************************************************)
EXTENDS Integers, Sequences, FiniteSets, TLC

VARIABLES
    dirs,       \* the directories of the file system (paths)
    files,      \* the files of the file system: path -> content
    calendar,   \* the trading dates the calendar service D knows, future ones included
    um,         \* the UserManager handed to prepare
    call,       \* the other arguments of the pending call of prepare
    ret,        \* the last call: its operation, arguments and outcome
    saved       \* history: path -> the argument of the last save to that path

vars == <<dirs, files, calendar, um, call, ret, saved>>

\* ------------------------------------------------------------------ bounds

\* rows the registry users.csv may hold
MaxUsers == 2
\* the calendar of prepare spans the days 2019-12-30 + 0..Horizon
Horizon == 4

\* -------------------------------------------------------------------- text

DigitChars == <<"0", "1", "2", "3", "4", "5", "6", "7", "8", "9">>

\* characters in code-point order: '-' (45) before '0'..'9' (48..57)
CharOrder == <<"-">> \o DigitChars

Ord(c) == CHOOSE i \in 1..Len(CharOrder) : CharOrder[i] = c

\* Python's str < str: lexicographic by code point, a proper prefix is smaller
RECURSIVE StrLess(_, _)
StrLess(a, b) ==
    IF b = <<>> THEN FALSE
    ELSE IF a = <<>> THEN TRUE
    ELSE IF Head(a) /= Head(b) THEN Ord(Head(a)) < Ord(Head(b))
    ELSE StrLess(Tail(a), Tail(b))

\* "%0<width>d" % n
RECURSIVE ZeroPad(_, _)
ZeroPad(n, width) ==
    IF width = 0 THEN <<>>
    ELSE ZeroPad(n \div 10, width - 1) \o <<DigitChars[(n % 10) + 1]>>

\* int(text) for a text of decimal digits
RECURSIVE ParseInt(_)
ParseInt(s) ==
    IF s = <<>> THEN 0
    ELSE 10 * ParseInt(SubSeq(s, 1, Len(s) - 1))
         + (CHOOSE d \in 0..9 : DigitChars[d + 1] = s[Len(s)])

IsDigits(s) == s /= <<>> /\ \A i \in 1..Len(s) : \E d \in 1..10 : DigitChars[d] = s[i]

\* str.split(sep) for a one-character separator
RECURSIVE Split(_, _)
Split(s, sep) ==
    IF \A i \in 1..Len(s) : s[i] /= sep THEN <<s>>
    ELSE LET k == CHOOSE i \in 1..Len(s) : s[i] = sep /\ \A j \in 1..(i - 1) : s[j] /= sep
         IN <<SubSeq(s, 1, k - 1)>> \o Split(SubSeq(s, k + 1, Len(s)), sep)

\* ------------------------------------------------------------- timestamps

\* pd.Timestamp: a calendar date and an hour of the day
Timestamp(y, m, d, h) == [year |-> y, month |-> m, day |-> d, hour |-> h]

\* str(ts.date()): "YYYY-MM-DD", the time of day dropped
DateStr(ts) ==
    ZeroPad(ts.year, 4) \o <<"-">> \o ZeroPad(ts.month, 2) \o <<"-">> \o ZeroPad(ts.day, 2)

\* pd.Timestamp("YYYY-MM-DD"): midnight of that date
ParseTimestamp(s) ==
    LET p == Split(s, "-")
    IN Timestamp(ParseInt(p[1]), ParseInt(p[2]), ParseInt(p[3]), 0)

\* Timestamp comparison
TsKey(ts) == ((ts.year * 16 + ts.month) * 32 + ts.day) * 32 + ts.hour
TsLeq(a, b) == TsKey(a) <= TsKey(b)
TsLess(a, b) == TsKey(a) < TsKey(b)

\* ------------------------------------------------------------ file system

\* pathlib.Path.exists()
Exists(p) == p \in dirs \/ p \in DOMAIN files

\* the directories Path.mkdir(parents=True) makes sure of: p and its ancestors
WithParents(p) == {SubSeq(p, 1, k) : k \in 1..Len(p)}

Parent(p) == SubSeq(p, 1, Len(p) - 1)

\* the file system after writing `content` to the file p (created or truncated)
Written(p, content) ==
    [q \in (DOMAIN files) \cup {p} |-> IF q = p THEN content ELSE files[q]]

\* a result record; fields a call does not use keep these values
NoRet ==
    [op |-> "none", status |-> "ok", user_path |-> <<>>, date |-> <<>>,
     path |-> <<>>, arg |-> <<>>, value |-> <<>>, msg |-> <<>>, calls |-> {}]

\* ------------------------------------------------------------ text values

T_data == <<"data">>
T_u1 == <<"u1">>
T_u2 == <<"u2">>
T_score == <<"score">>
T_trade == <<"trade">>
T_score_ == <<"score_">>
T_orderlist_ == <<"orderlist_">>
T_csv == <<".csv">>
T_json == <<".json">>
T_users_csv == <<"users.csv">>
T_account_pkl == <<"account.pkl">>
T_user_id == <<"user_id">>
T_add_date == <<"add_date">>
T_sell == <<"sell">>
T_buy == <<"buy">>
T_pickle == <<"pickle">>
T_NaN == <<"NaN">>
T_0 == <<"0">>
T_brace == <<"{">>

\* str(n) for n >= 0
RECURSIVE IntStr(_)
IntStr(n) ==
    IF n < 10 THEN <<DigitChars[n + 1]>>
    ELSE IntStr(n \div 10) \o <<DigitChars[(n % 10) + 1]>>

\* ------------------------------------------------------------------ inputs

\* user data folders
UserPaths == {<<T_data, T_u1>>, <<T_data, T_u2>>}
\* folders handed to create_user_folder
CreatePaths == {<<T_data>>, <<T_data, T_u1>>, <<T_data, T_users_csv, T_u1>>}
\* pickled instances and where they are kept
Instances == {<<"a">>}
InstancePaths == {<<T_data, T_u1, T_account_pkl>>}
\* trade dates: two dates that differ in year, month and day, and a second
\* time of day on one of them
TradeDates == {Timestamp(2019, 12, 31, 0), Timestamp(2020, 1, 1, 0), Timestamp(2020, 1, 1, 15)}
\* the (user_path, trade_date) pairs the save and load operations are called with
Targets ==
    {<<u, d>> \in UserPaths \X TradeDates : u = <<T_data, T_u1>> \/ d.year = 2019}

\* the names the module binds at import time (lines 7-17) and its own functions
ModuleGlobals ==
    {"pathlib", "pickle", "pd", "YAML", "D", "C", "get_module_logger",
     "get_next_trading_date", "Exchange", "log",
     "load_instance", "save_instance", "create_user_folder", "prepare",
     "save_score_series", "load_score_series", "save_order_list", "load_order_list"}

\* Order.SELL and Order.BUY
OrderSELL == 0
OrderBUY == 1

Order(s, a, d, f) == [stock_id |-> s, amount |-> a, direction |-> d, factor |-> f]

\* order lists: one order, a buy before a sell, two sells of one stock
OrderLists ==
    {<<Order(<<"A">>, 1, OrderSELL, 1)>>,
     <<Order(<<"A">>, 1, OrderBUY, 1), Order(<<"B">>, 2, OrderSELL, 1)>>,
     <<Order(<<"A">>, 1, OrderSELL, 1), Order(<<"A">>, 2, OrderSELL, 1)>>}

\* score series: the name (<<>> for None) and the rows, instrument and score
ScoreSeries ==
    {[name |-> <<>>, data |-> << <<<<"A">>, 1>>, <<<<"B">>, 2>> >>],
     [name |-> T_score, data |-> << <<<<"A">>, 2>> >>]}

\* --------------------------------------------------------- path building

\* YYYY, MM, DD = str(trade_date.date()).split("-")
DateParts(trade_date) == Split(DateStr(trade_date), "-")

\* mutant of FolderPath: the day where the month belongs
FolderPath_day(user_path, kind, trade_date) ==
    user_path \o <<kind, DateParts(trade_date)[1], DateParts(trade_date)[3]>>

\* user_path / kind / YYYY / MM
FolderPath(user_path, kind, trade_date) ==
    user_path \o <<kind, DateParts(trade_date)[1], DateParts(trade_date)[2]>>

\* folder_path / "score_{}.csv".format(str(trade_date.date()))
ScoreFilePath(user_path, trade_date) ==
    FolderPath(user_path, T_score, trade_date)
        \o <<T_score_ \o DateStr(trade_date) \o T_csv>>

\* folder_path / "orderlist_{}.json".format(str(trade_date.date()))
OrderFilePath(user_path, trade_date) ==
    FolderPath(user_path, T_trade, trade_date)
        \o <<T_orderlist_ \o DateStr(trade_date) \o T_json>>

\* the paths of the pairs in Targets, evaluated once
FolderTable == [k \in {T_score, T_trade} |-> [t \in Targets |-> FolderPath(t[1], k, t[2])]]
ScoreFileTable == [t \in Targets |-> ScoreFilePath(t[1], t[2])]
OrderFileTable == [t \in Targets |-> OrderFilePath(t[1], t[2])]

\* ----------------------------------------------------- pickled instances

PickleDump(instance) == <<<<T_pickle, instance>>>>
IsPickle(content) == Len(content) = 1 /\ Len(content[1]) = 2 /\ content[1][1] = T_pickle
PickleLoad(content) == content[1][2]

load_instance(file_path) ==
    /\ UNCHANGED <<dirs, files, calendar, um, call>>
    /\ ret' = IF ~Exists(file_path)
              THEN [NoRet EXCEPT !.op = "load_instance", !.path = file_path,
                                 !.status = "ValueError",
                                 !.msg = <<"Cannot find file {}", file_path>>]
              ELSE IF file_path \in dirs
              THEN [NoRet EXCEPT !.op = "load_instance", !.path = file_path,
                                 !.status = "IsADirectoryError"]
              ELSE IF ~IsPickle(files[file_path])
              THEN [NoRet EXCEPT !.op = "load_instance", !.path = file_path,
                                 !.status = "UnpicklingError"]
              ELSE [NoRet EXCEPT !.op = "load_instance", !.path = file_path,
                                 !.value = PickleLoad(files[file_path])]

save_instance(instance, file_path) ==
    IF Parent(file_path) \notin dirs \/ file_path \in dirs
    THEN /\ UNCHANGED <<dirs, files, calendar, um, call>>
         /\ ret' = [NoRet EXCEPT !.op = "save_instance", !.path = file_path,
                                 !.arg = instance,
                                 !.status = IF file_path \in dirs THEN "IsADirectoryError"
                                            ELSE "FileNotFoundError"]
    ELSE /\ files' = Written(file_path, PickleDump(instance))
         /\ UNCHANGED <<dirs, calendar, um, call>>
         /\ ret' = [NoRet EXCEPT !.op = "save_instance", !.path = file_path,
                                 !.arg = instance]

\* ------------------------------------------------------------ user folder

\* pd.DataFrame(columns=("user_id", "add_date")).to_csv(.., index=None)
UsersHead == <<<<T_user_id, T_add_date>>>>

\* mutant of create_user_folder: no test for a folder that is already there
create_user_folder_overwrite(path) ==
    /\ dirs' = dirs \cup WithParents(path)
    /\ files' = Written(path \o <<T_users_csv>>, UsersHead)
    /\ UNCHANGED <<calendar, um, call>>
    /\ ret' = [NoRet EXCEPT !.op = "create_user_folder", !.user_path = path,
                            !.path = path \o <<T_users_csv>>]

create_user_folder(path) ==
    IF Exists(path)
    THEN /\ UNCHANGED <<dirs, files, calendar, um, call>>
         /\ ret' = [NoRet EXCEPT !.op = "create_user_folder", !.user_path = path]
    ELSE IF \E a \in WithParents(path) : a \in DOMAIN files
    THEN /\ UNCHANGED <<dirs, files, calendar, um, call>>
         /\ ret' = [NoRet EXCEPT !.op = "create_user_folder", !.user_path = path,
                                 !.status = "NotADirectoryError"]
    ELSE /\ dirs' = dirs \cup WithParents(path)
         /\ files' = Written(path \o <<T_users_csv>>, UsersHead)
         /\ UNCHANGED <<calendar, um, call>>
         /\ ret' = [NoRet EXCEPT !.op = "create_user_folder", !.user_path = path,
                                 !.path = path \o <<T_users_csv>>]

\* UserManager.add_user and save_user_data: one more row in the registry
add_user(path, user_id, add_date) ==
    LET registry == path \o <<T_users_csv>>
    IN /\ registry \in DOMAIN files
       /\ Len(files[registry]) <= MaxUsers
       /\ files' = Written(registry, Append(files[registry], <<user_id, add_date>>))
       /\ UNCHANGED <<dirs, calendar, um, call>>
       /\ ret' = [NoRet EXCEPT !.op = "add_user", !.user_path = path, !.path = registry]

\* ----------------------------------------------------------- score series

\* Series.to_csv(file_path): a header line (the index label, empty when the index
\* has no name, and the series name, "0" when it has none), then one line per row
SeriesToCsv(score_series) ==
    <<<< <<>>, IF score_series.name = <<>> THEN T_0 ELSE score_series.name >>>>
    \o [i \in 1..Len(score_series.data) |->
          <<score_series.data[i][1], IntStr(score_series.data[i][2])>>]

\* pd.read_csv(file_path, index_col=0, header=None, names=["instrument", "score"]):
\* every line of the file is a row; an empty index cell reads as NaN; the score
\* column is numeric when every cell of it is a number and text otherwise
ReadCsv(lines) ==
    [index |-> [i \in 1..Len(lines) |->
                  IF lines[i][1] = <<>> THEN T_NaN ELSE lines[i][1]],
     score |-> IF \A i \in 1..Len(lines) : IsDigits(lines[i][2])
               THEN [i \in 1..Len(lines) |-> ParseInt(lines[i][2])]
               ELSE [i \in 1..Len(lines) |-> lines[i][2]]]

save_score_series(score_series, user_path, trade_date) ==
    LET folder_path == FolderTable[T_score][<<user_path, trade_date>>]
        file_path == ScoreFileTable[<<user_path, trade_date>>]
    IN /\ dirs' = IF ~Exists(folder_path) THEN dirs \cup WithParents(folder_path) ELSE dirs
       /\ files' = Written(file_path, SeriesToCsv(score_series))
       /\ UNCHANGED <<calendar, um, call>>
       /\ ret' = [NoRet EXCEPT !.op = "save_score_series", !.user_path = user_path,
                               !.date = trade_date, !.path = file_path,
                               !.arg = score_series]

\* mutant of load_score_series: the folder is not created
load_score_series_nomkdir(user_path, trade_date) ==
    LET file_path == ScoreFileTable[<<user_path, trade_date>>]
        r == [NoRet EXCEPT !.op = "load_score_series", !.user_path = user_path,
                           !.date = trade_date, !.path = file_path]
    IN /\ UNCHANGED <<dirs, files, calendar, um, call>>
       /\ ret' = IF file_path \notin DOMAIN files
                 THEN [r EXCEPT !.status = "FileNotFoundError"]
                 ELSE IF files[file_path] = <<>>
                 THEN [r EXCEPT !.status = "EmptyDataError"]
                 ELSE [r EXCEPT !.value = ReadCsv(files[file_path])]

load_score_series(user_path, trade_date) ==
    LET folder_path == FolderTable[T_score][<<user_path, trade_date>>]
        file_path == ScoreFileTable[<<user_path, trade_date>>]
        r == [NoRet EXCEPT !.op = "load_score_series", !.user_path = user_path,
                           !.date = trade_date, !.path = file_path]
    IN /\ dirs' = IF ~Exists(folder_path) THEN dirs \cup WithParents(folder_path) ELSE dirs
       /\ UNCHANGED <<files, calendar, um, call>>
       /\ ret' = IF file_path \notin DOMAIN files
                 THEN [r EXCEPT !.status = "FileNotFoundError"]
                 ELSE IF files[file_path] = <<>>
                 THEN [r EXCEPT !.status = "EmptyDataError"]
                 ELSE [r EXCEPT !.value = ReadCsv(files[file_path])]

\* ------------------------------------------------------------- order lists

\* a dict keeps its keys in insertion order; d[k] = v replaces the value of a
\* key already present and appends a new key otherwise
DictHas(d, k) == \E i \in 1..Len(d) : d[i][1] = k
DictSet(d, k, v) ==
    IF DictHas(d, k)
    THEN [i \in 1..Len(d) |-> IF d[i][1] = k THEN <<k, v>> ELSE d[i]]
    ELSE Append(d, <<k, v>>)

\* the loop of save_order_list over order_list[1..n], for one direction:
\* sell collects the orders of direction 0, buy all the others
RECURSIVE SideDict(_, _, _)
SideDict(order_list, n, sell) ==
    IF n = 0 THEN <<>>
    ELSE LET order == order_list[n]
             rest == SideDict(order_list, n - 1, sell)
         IN IF (order.direction = 0) = sell
            THEN DictSet(rest, order.stock_id, <<order.amount, order.factor>>)
            ELSE rest

OrderDict(order_list) ==
    [sell |-> SideDict(order_list, Len(order_list), TRUE),
     buy |-> SideDict(order_list, Len(order_list), FALSE)]

\* json.dump(order_dict, fp): the opening brace, then one line per entry
JsonSide(side, d) ==
    [i \in 1..Len(d) |-> <<side, d[i][1], IntStr(d[i][2][1]), IntStr(d[i][2][2])>>]
JsonDump(order_dict) ==
    <<<<T_brace>>>> \o JsonSide(T_sell, order_dict.sell) \o JsonSide(T_buy, order_dict.buy)

\* json.load(fp), for a file json.dump wrote
JsonEntries(lines, side) ==
    LET idx == {i \in 1..Len(lines) : lines[i][1] = side}
        RECURSIVE Take(_)
        Take(I) == IF I = {} THEN <<>>
                   ELSE LET m == CHOOSE i \in I : \A j \in I : j <= i
                        IN Append(Take(I \ {m}),
                                  <<lines[m][2], <<ParseInt(lines[m][3]), ParseInt(lines[m][4])>>>>)
    IN Take(idx)
JsonLoad(lines) == [sell |-> JsonEntries(lines, T_sell), buy |-> JsonEntries(lines, T_buy)]

\* the orders load_order_list builds from one side of the dict
LoadedOrders(d, direction, trade_date) ==
    [i \in 1..Len(d) |->
        [stock_id |-> d[i][1], amount |-> d[i][2][1], trade_date |-> trade_date,
         direction |-> direction, factor |-> d[i][2][2]]]

save_order_list(order_list, user_path, trade_date) ==
    LET folder_path == FolderTable[T_trade][<<user_path, trade_date>>]
        file_path == OrderFileTable[<<user_path, trade_date>>]
        order_dict == OrderDict(order_list)
        r == [NoRet EXCEPT !.op = "save_order_list", !.user_path = user_path,
                           !.date = trade_date, !.path = file_path,
                           !.arg = order_list]
    IN /\ dirs' = IF ~Exists(folder_path) THEN dirs \cup WithParents(folder_path) ELSE dirs
       \* file_path.open("w") creates or truncates the file; json is looked up after
       /\ files' = Written(file_path,
                           IF "json" \in ModuleGlobals THEN JsonDump(order_dict) ELSE <<>>)
       /\ UNCHANGED <<calendar, um, call>>
       /\ ret' = IF "json" \in ModuleGlobals THEN r ELSE [r EXCEPT !.status = "NameError"]

\* mutant of load_order_list: the file is opened without the test that it exists
load_order_list_nocheck(user_path, trade_date) ==
    LET path == OrderFileTable[<<user_path, trade_date>>]
        r == [NoRet EXCEPT !.op = "load_order_list", !.user_path = user_path,
                           !.date = trade_date, !.path = path]
    IN /\ UNCHANGED <<dirs, files, calendar, um, call>>
       /\ ret' = IF ~Exists(path)
                 THEN [r EXCEPT !.status = "FileNotFoundError"]
                 ELSE [r EXCEPT !.status = "NameError"]

load_order_list(user_path, trade_date) ==
    LET path == OrderFileTable[<<user_path, trade_date>>]
        r == [NoRet EXCEPT !.op = "load_order_list", !.user_path = user_path,
                           !.date = trade_date, !.path = path]
    IN /\ UNCHANGED <<dirs, files, calendar, um, call>>
       /\ ret' = IF ~Exists(path)
                 THEN [r EXCEPT !.status = "ValueError",
                                !.msg = <<"File {} not exists!", path>>]
                 ELSE IF "json" \notin ModuleGlobals
                 THEN [r EXCEPT !.status = "NameError"]
                 ELSE IF files[path] = <<>>
                 THEN [r EXCEPT !.status = "JSONDecodeError"]
                 ELSE IF "Order" \notin ModuleGlobals
                         /\ (JsonLoad(files[path]).sell /= <<>> \/ JsonLoad(files[path]).buy /= <<>>)
                 THEN [r EXCEPT !.status = "NameError"]
                 ELSE [r EXCEPT !.value =
                          LoadedOrders(JsonLoad(files[path]).sell, OrderSELL, trade_date)
                          \o LoadedOrders(JsonLoad(files[path]).buy, OrderBUY, trade_date)]

\* ---------------------------------------------------------------- prepare

\* the days of the calendar's span: 2019-12-30, 2019-12-31, 2020-01-01, ...
DayAt(k) == IF k <= 1 THEN Timestamp(2019, 12, 30 + k, 0) ELSE Timestamp(2020, 1, k - 1, 0)
Days == {DayAt(k) : k \in 0..Horizon}

\* the calendars: any trading dates up to the last day of the span, which is
\* always one (the calendar is asked with future=True and reaches past today)
Calendars == {c \cup {DayAt(Horizon)} : c \in SUBSET {DayAt(k) : k \in 0..(Horizon - 1)}}

\* today: a day before the last one of the span, at midnight or during the day
Todays == {[DayAt(k) EXCEPT !.hour = h] : k \in 0..(Horizon - 1), h \in {0, 15}}

T_config_yaml == <<"config.yaml">>
T_open_cost == <<"open_cost">>
ConfigPath == <<T_data, T_config_yaml>>
\* the content of the exchange configuration file: one parameter
ConfigContent == <<<<T_open_cost, <<"1">>>>>>

NoCall == [today |-> <<>>, user_id |-> <<>>, exchange_config |-> <<>>]
NoUM == [users |-> <<>>, user_record |-> <<>>]

\* a set of timestamps as an increasing sequence
RECURSIVE Sorted(_)
Sorted(S) ==
    IF S = {} THEN <<>>
    ELSE LET m == CHOOSE x \in S : \A y \in S : TsLeq(y, x)
         IN Append(Sorted(S \ {m}), m)

\* D.calendar(start_time, end_time, future=True): the trading dates in
\* [start_time, end_time], increasing
DCalendar(start_time, end_time) ==
    Sorted({d \in calendar : TsLeq(start_time, d) /\ TsLeq(d, end_time)})

\* get_next_trading_date(d, future=True): the first trading date after d
get_next_trading_date(d) ==
    CHOOSE n \in calendar : TsLess(d, n) /\ \A x \in calendar : TsLess(d, x) => TsLeq(n, x)

\* yaml.load(fp): the parameters of the configuration file
YamlLoad(lines) == lines

\* Exchange(trade_dates=dates, **exchange_paras)
Exchange(dates, exchange_paras) == [trade_dates |-> dates, paras |-> exchange_paras]

\* the user's recorded last-trade date: the latest trading date, or the init date
\* of the registry when the user has none
LatestTradingDate(m, user_id) ==
    IF m.users[user_id] = <<>> THEN m.user_record[user_id] ELSE m.users[user_id]

\* mutant of AfterToday: <= where the code has <
AfterToday_le(today, latest_trading_date) == ~StrLess(latest_trading_date, DateStr(today))

\* str(today.date()) < latest_trading_date
AfterToday(today, latest_trading_date) == StrLess(DateStr(today), latest_trading_date)

prepare(m, today, user_id, exchange_config) ==
    LET latest_trading_date == LatestTradingDate(m, user_id)
        r == [NoRet EXCEPT !.op = "prepare",
                           !.arg = [today |-> today, latest |-> latest_trading_date,
                                    exchange_config |-> exchange_config]]
        dates0 == DCalendar(ParseTimestamp(latest_trading_date), today)
        dates == Append(dates0, get_next_trading_date(dates0[Len(dates0)]))
        exchange_paras == IF exchange_config /= <<>> THEN YamlLoad(files[exchange_config])
                          ELSE <<>>
    IN /\ ret.op = "none"
       /\ call /= NoCall
       /\ UNCHANGED <<dirs, files, calendar, um, call>>
       /\ ret' = IF AfterToday(today, latest_trading_date)
                 THEN [r EXCEPT !.calls = {"log.warning"},
                                !.value = [dates |-> <<ParseTimestamp(latest_trading_date)>>,
                                           exchange |-> <<>>]]
                 ELSE IF dates0 = <<>>
                 THEN [r EXCEPT !.calls = {"D.calendar"}, !.status = "IndexError"]
                 ELSE [r EXCEPT !.calls = {"D.calendar", "get_next_trading_date", "Exchange"}
                                          \cup (IF exchange_config /= <<>> THEN {"open"} ELSE {}),
                                !.value = [dates |-> dates,
                                           exchange |-> <<Exchange(dates, exchange_paras)>>]]

\* the user managers: one user, who has traded last on a trading date or never,
\* and whose init date in the registry is any day of the span
UserManagers ==
    {[users |-> [u \in {T_u1} |-> l], user_record |-> [u \in {T_u1} |-> DateStr(i)]] :
        l \in {<<>>} \cup {DateStr(d) : d \in Days}, i \in Days}

Init ==
    /\ dirs = {}
    /\ files = [q \in {} |-> <<>>]
    /\ calendar = {}
    /\ um = NoUM
    /\ call = NoCall
    /\ ret = NoRet
    /\ saved = [q \in {} |-> <<>>]

\* a call of prepare is pending: some calendar, user manager, today and
\* configuration (none, or a file that is there)
InitPrepare ==
    /\ dirs = {<<T_data>>}
    /\ files = [q \in {ConfigPath} |-> ConfigContent]
    /\ calendar \in Calendars
    /\ um \in {m \in UserManagers : m.users[T_u1] = <<>> \/ ParseTimestamp(m.users[T_u1]) \in calendar}
    /\ call \in {[today |-> t, user_id |-> T_u1, exchange_config |-> c] :
                    t \in Todays, c \in {<<>>, ConfigPath}}
    /\ ret = NoRet
    /\ saved = [q \in {} |-> <<>>]

Next ==
    \/ (\E p \in InstancePaths : load_instance(p)) /\ UNCHANGED saved
    \/ (\E i \in Instances, p \in InstancePaths : save_instance(i, p)) /\ UNCHANGED saved
    \/ (\E s \in ScoreSeries, t \in Targets : save_score_series(s, t[1], t[2]))
          /\ UNCHANGED saved
    \/ (\E t \in Targets : load_score_series(t[1], t[2])) /\ UNCHANGED saved
    \/ (\E l \in OrderLists, t \in Targets : save_order_list(l, t[1], t[2]))
          /\ UNCHANGED saved
    \/ (\E t \in Targets : load_order_list(t[1], t[2])) /\ UNCHANGED saved

Spec == Init /\ [][Next]_vars

\* the user folder and its registry
NextFolder ==
    \/ (\E p \in CreatePaths : create_user_folder(p)) /\ UNCHANGED saved
    \/ (\E p \in CreatePaths : add_user(p, T_u1, DateStr(Timestamp(2019, 12, 31, 0))))
          /\ UNCHANGED saved
    \/ (\E i \in Instances, p \in InstancePaths : save_instance(i, p)) /\ UNCHANGED saved
    \/ (\E p \in InstancePaths : load_instance(p)) /\ UNCHANGED saved

SpecFolder == Init /\ [][NextFolder]_vars

\* the save and load operations of one user folder, with the history of the saves
TargetsSaved == {t \in Targets : t[1] = <<T_data, T_u1>>}
Remember == saved' = [q \in (DOMAIN saved) \cup {ret'.path} |->
                        IF q = ret'.path THEN ret'.arg ELSE saved[q]]
NextSaved ==
    \/ (\E s \in ScoreSeries, t \in TargetsSaved : save_score_series(s, t[1], t[2]))
          /\ Remember
    \/ (\E t \in TargetsSaved : load_score_series(t[1], t[2])) /\ UNCHANGED saved
    \/ (\E l \in OrderLists, t \in TargetsSaved : save_order_list(l, t[1], t[2]))
          /\ Remember
    \/ (\E t \in TargetsSaved : load_order_list(t[1], t[2])) /\ UNCHANGED saved

SpecSaved == Init /\ [][NextSaved]_vars

NextPrepare ==
    prepare(um, call.today, call.user_id, call.exchange_config) /\ UNCHANGED saved

SpecPrepare == InitPrepare /\ [][NextPrepare]_vars

\* ================================================================ claims

\* the layout the specification gives: <user_path>/<kind>/YYYY/MM/<prefix><date><ext>,
\* the digits taken from the date one by one
Digit(n, place) == DigitChars[((n \div place) % 10) + 1]
LayoutYYYY(ts) == <<Digit(ts.year, 1000), Digit(ts.year, 100), Digit(ts.year, 10), Digit(ts.year, 1)>>
LayoutMM(ts) == <<Digit(ts.month, 10), Digit(ts.month, 1)>>
LayoutDD(ts) == <<Digit(ts.day, 10), Digit(ts.day, 1)>>
LayoutDate(ts) == LayoutYYYY(ts) \o <<"-">> \o LayoutMM(ts) \o <<"-">> \o LayoutDD(ts)
LayoutFolder(user_path, kind, ts) == user_path \o <<<<kind>>, LayoutYYYY(ts), LayoutMM(ts)>>
LayoutFile(user_path, kind, ts) ==
    LayoutFolder(user_path, kind, ts)
        \o <<(IF kind = "score" THEN <<"score_">> ELSE <<"orderlist_">>) \o LayoutDate(ts)
              \o (IF kind = "score" THEN <<".csv">> ELSE <<".json">>)>>

ScoreOps == {"save_score_series", "load_score_series"}
OrderOps == {"save_order_list", "load_order_list"}
KindOf(op) == IF op \in ScoreOps THEN "score" ELSE "trade"
\* the tuple that is to determine the file of a call
TupleOf(r) == <<r.user_path, KindOf(r.op), r.date.year, r.date.month, r.date.day>>
SameTarget(r1, r2) == r1.user_path = r2.user_path /\ r1.date = r2.date

\* dates compared as dates
DateKey(ts) == (ts.year * 16 + ts.month) * 32 + ts.day

\* a loaded order list that is equivalent to the list L saved for trade_date
OrdersEquivalent(L, R, trade_date) ==
    /\ Len(R) = Len(L)
    /\ \A i \in 1..Len(L) : \E j \in 1..Len(R) :
          /\ R[j].stock_id = L[i].stock_id
          /\ R[j].direction = L[i].direction
          /\ R[j].amount = L[i].amount
          /\ R[j].factor = L[i].factor
          /\ R[j].trade_date = trade_date

\* a loaded score frame that holds the rows of the series S and no other
SeriesEquivalent(S, R) ==
    /\ Len(R.index) = Len(S.data)
    /\ \A i \in 1..Len(S.data) : \E j \in 1..Len(R.index) :
          R.index[j] = S.data[i][1] /\ R.score[j] = S.data[i][2]

\* C1: save_order_list(L, user_path, trade_date) followed by
\* load_order_list(user_path, trade_date) returns a list equivalent to L: both
\* calls return, the loaded list has as many orders as L and, for each order of
\* L, an order with its stock id, direction, amount and factor, dated trade_date.
C1_OrderListRoundTrip ==
    [][(ret.op = "save_order_list" /\ ret'.op = "load_order_list" /\ SameTarget(ret, ret'))
         => /\ ret.status = "ok"
            /\ ret'.status = "ok"
            /\ OrdersEquivalent(ret.arg, ret'.value, ret'.date)]_vars

\* C2: save_score_series(S, user_path, trade_date) followed by
\* load_score_series(user_path, trade_date) returns exactly the instruments of
\* S, each with its score, and no other row.
C2_ScoreSeriesRoundTrip ==
    [][(ret.op = "save_score_series" /\ ret'.op = "load_score_series" /\ SameTarget(ret, ret'))
         => /\ ret'.status = "ok"
            /\ SeriesEquivalent(ret.arg, ret'.value)]_vars

\* C3: create_user_folder is idempotent.  A call on a path that exists changes
\* nothing (the rows of users.csv stay); a call on a path that does not exist
\* and can be made creates the folder with its parents and a users.csv that
\* holds the columns user_id, add_date and no row, and nothing else; a second
\* call right after a call on the same path changes nothing.
C3_CreateUserFolderIdempotent ==
    [][ret'.op = "create_user_folder"
         => LET path == ret'.user_path
                registry == path \o <<<<"users.csv">>>>
            IN /\ (path \in dirs \/ path \in DOMAIN files)
                     => (dirs' = dirs /\ files' = files /\ ret'.status = "ok")
               /\ (~(path \in dirs \/ path \in DOMAIN files) /\ ret'.status = "ok")
                     => /\ dirs' = dirs \cup {SubSeq(path, 1, k) : k \in 1..Len(path)}
                        /\ DOMAIN files' = (DOMAIN files) \cup {registry}
                        /\ files'[registry] = <<<<<<"user_id">>, <<"add_date">>>>>>
                        /\ \A q \in DOMAIN files : files'[q] = files[q]
               /\ ret'.status /= "ok" => (dirs' = dirs /\ files' = files)
               /\ (ret.op = "create_user_folder" /\ ret.user_path = path)
                     => (dirs' = dirs /\ files' = files)]_vars

\* reached: create_user_folder was called on a folder whose registry holds a
\* row, and the row is still there
C3_Witness ==
    /\ ret.op = "create_user_folder"
    /\ ret.user_path = <<T_data>>
    /\ <<T_data, T_users_csv>> \in DOMAIN files
    /\ Len(files[<<T_data, T_users_csv>>]) > 1

\* C4: load_instance on a path that does not exist, and load_order_list when
\* <user_path>/trade/YYYY/MM/orderlist_<date>.json does not exist, end in a
\* ValueError whose message names that path; nothing is returned and the file
\* system is unchanged.
C4_MissingFileErrors ==
    [][LET missing == IF ret'.op = "load_order_list"
                      THEN LayoutFile(ret'.user_path, "trade", ret'.date)
                      ELSE ret'.path
       IN (ret'.op \in {"load_instance", "load_order_list"}
             /\ missing \notin dirs /\ missing \notin DOMAIN files)
          => /\ ret'.status = "ValueError"
             /\ ret'.value = <<>>
             /\ ret'.msg[2] = missing
             /\ dirs' = dirs
             /\ files' = files]_vars

\* reached: load_order_list raised the ValueError for a date without an order
\* file while the user has files of other dates
C4_Witness ==
    /\ ret.op = "load_order_list"
    /\ ret.status = "ValueError"
    /\ ret.path \notin DOMAIN files
    /\ \E q \in DOMAIN files : SubSeq(q, 1, 2) = ret.user_path

\* the recorded last-trade date of the user of the pending call, as a timestamp
Recorded ==
    ParseTimestamp(IF um.users[call.user_id] = <<>> THEN um.user_record[call.user_id]
                   ELSE um.users[call.user_id])

\* C5: when the recorded last-trade date is strictly after today, prepare
\* returns the one-element list of that date and no exchange, without asking the
\* calendar or reading the configuration; when it is today, the short-circuit
\* is not taken.
C5_PrepareShortCircuit ==
    ret.op = "prepare"
      => /\ DateKey(Recorded) > DateKey(call.today)
              => /\ ret.status = "ok"
                 /\ ret.value.dates = <<Recorded>>
                 /\ ret.value.exchange = <<>>
                 /\ ret.calls \cap {"D.calendar", "get_next_trading_date", "open", "Exchange"} = {}
         /\ DateKey(Recorded) = DateKey(call.today)
              => ("log.warning" \notin ret.calls /\ "D.calendar" \in ret.calls)
         /\ DateKey(Recorded) < DateKey(call.today) => "log.warning" \notin ret.calls

\* reached: the short-circuit on the init date of a user who never traded
C5_Witness ==
    /\ ret.op = "prepare"
    /\ um.users[call.user_id] = <<>>
    /\ DateKey(Recorded) > DateKey(call.today)
    /\ ret.value.dates = <<Recorded>>

\* C6: when the recorded last-trade date is not after today, prepare returns
\* the trading dates from that date through today, increasing, followed by the
\* next trading date after the last of them, and an exchange built on exactly
\* these dates, also when the calendar has no trading date in between.
C6_PreparePendingDates ==
    (ret.op = "prepare" /\ DateKey(Recorded) <= DateKey(call.today))
      => /\ ret.status = "ok"
         /\ LET dates == ret.value.dates
                n == Len(dates)
            IN /\ n >= 1
               /\ \A i \in 1..n : dates[i] \in calendar
               /\ \A i \in 1..(n - 1) : TsKey(dates[i]) < TsKey(dates[i + 1])
               /\ \A i \in 1..(n - 1) : DateKey(dates[i]) <= DateKey(call.today)
               /\ \A i \in 1..(n - 1) : DateKey(dates[i]) >= DateKey(Recorded)
               /\ DateKey(dates[n]) > DateKey(call.today)
               /\ \A d \in calendar :
                     (DateKey(Recorded) <= DateKey(d) /\ DateKey(d) <= DateKey(call.today))
                        => \E i \in 1..(n - 1) : dates[i] = d
               /\ \A d \in calendar : DateKey(d) > DateKey(call.today)
                                        => DateKey(dates[n]) <= DateKey(d)
               /\ Len(ret.value.exchange) = 1
               /\ ret.value.exchange[1].trade_dates = dates

\* C7: in every result of prepare, dates[0] is the recorded last-trade date:
\* the latest trading date or, for a user who never traded, the init date of
\* the registry, also when that is no trading date.
C7_FirstDateIsRecorded ==
    (ret.op = "prepare" /\ ret.status = "ok") => ret.value.dates[1] = Recorded

\* C8: the file a save or load addresses is <user_path>/score/YYYY/MM/
\* score_<date>.csv or <user_path>/trade/YYYY/MM/orderlist_<date>.json, YYYY and
\* MM the year and month of the date; two calls address the same file exactly
\* when they agree in user root, kind and date.
C8_PathOfTuple ==
    [][ret'.op \in ScoreOps \cup OrderOps
         => /\ ret'.path = LayoutFile(ret'.user_path, KindOf(ret'.op), ret'.date)
            /\ ret.op \in ScoreOps \cup OrderOps
                 => ((ret'.path = ret.path) <=> (TupleOf(ret') = TupleOf(ret)))]_vars

\* reached: a load at another time of the day read a score file of a user who
\* has other files
C8_Witness ==
    /\ ret.op = "load_score_series"
    /\ ret.status = "ok"
    /\ ret.date.hour = 15
    /\ \E q \in DOMAIN files : q /= ret.path /\ SubSeq(q, 1, 2) = ret.user_path

\* C9: a save succeeds whether or not its folder is there and leaves every
\* other file as it is; load_order_list and load_score_series return the
\* content of the most recent save for their date.
C9_LastWriteWins ==
    [][/\ ret'.op \in {"save_score_series", "save_order_list"}
            => /\ ret'.status = "ok"
               /\ \A q \in DOMAIN files :
                     q /= ret'.path => (q \in DOMAIN files' /\ files'[q] = files[q])
       /\ (ret'.op = "load_order_list" /\ ret'.path \in DOMAIN saved)
            => /\ ret'.status = "ok"
               /\ OrdersEquivalent(saved[ret'.path], ret'.value, ret'.date)
       /\ (ret'.op = "load_score_series" /\ ret'.path \in DOMAIN saved)
            => /\ ret'.status = "ok"
               /\ SeriesEquivalent(saved[ret'.path], ret'.value)]_vars

\* C10: load_instance and load_order_list never change the file system;
\* load_score_series changes no file and makes sure of the folder
\* <user_path>/score/YYYY/MM and its parents, nothing more, so that the folder
\* of a date without a score file is there after the read has failed.
C10_LoadSideEffects ==
    [][/\ ret'.op \in {"load_instance", "load_order_list"}
            => (dirs' = dirs /\ files' = files)
       /\ ret'.op = "load_score_series"
            => LET folder == LayoutFolder(ret'.user_path, "score", ret'.date)
               IN /\ files' = files
                  /\ folder \in dirs'
                  /\ dirs' = dirs \cup (IF folder \in dirs THEN {}
                                        ELSE {SubSeq(folder, 1, k) : k \in 1..Len(folder)})
                  /\ folder \notin dirs => ret'.status = "FileNotFoundError"]_vars

\* reached: load_score_series failed for a date without a score file and left
\* its folder behind
C10_Witness ==
    /\ ret.op = "load_score_series"
    /\ ret.status = "FileNotFoundError"
    /\ ret.path \notin DOMAIN files
    /\ LayoutFolder(ret.user_path, "score", ret.date) \in dirs

====
